---- MODULE Spec2Model ----
(***************************************************************************)
(* Model of yotar.py: shell(), and the generator-based context managers    *)
(* cd(), env(), path() and quiet().                                        *)
(*                                                                         *)
(* The process-wide state the functions act on is modelled directly: the   *)
(* working directory, the directory tree, os.environ (an insertion-ordered *)
(* mapping), and the file-descriptor table.  Every active `with` block is  *)
(* a frame on `stack` holding the locals of the suspended generator.       *)
(*                                                                         *)
(* The generators contain no try/finally: an exception raised by the       *)
(* enclosed block is thrown into the generator at its `yield` and leaves   *)
(* it at once, so the statements after the `yield` are not executed.       *)
(*                                                                         *)
(* Strings are sequences of one-character strings, so that split(':') and  *)
(* ':'.join() are computed and not assumed.  Directories are sequences of  *)
(* path components below the root.                                         *)
(*                                                                         *)
(* `Pathy` (used in annotations at lines 38, 64, 72) is a type alias that  *)
(* is not defined in this file; the functions are modelled by their bodies.*)
(* Iteration over os.environ follows CPython's _Environ.__iter__, which    *)
(* iterates over a list of the keys taken when the loop starts.            *)
(*                                                                         *)
(* Variables:                                                              *)
(*   cwd, dirs   working directory and the directories that exist          *)
(*   environ     os.environ, a sequence of <<key, value>> in insertion     *)
(*               order                                                     *)
(*   fdt         descriptor table: what each descriptor refers to          *)
(*   stack       the active `with` blocks, innermost last; a frame holds   *)
(*               the generator's locals, and for the properties the        *)
(*               process state before entry (pre) and at the yield         *)
(*   pc, exc     "run", "raising" (an exception is propagating), or the    *)
(*               line of the self-test about to run; the exception type    *)
(*   last        the scope operation just performed and its outcome        *)
(*   proc        the outcome of the shell() call just performed            *)
(*   main        the parameters and progress of the self-test              *)
(*                                                                         *)
(* Specifications: SpecDir (shell and cd), SpecEnv (env and path), SpecFd  *)
(* (quiet) let a caller use the operations on one process resource in any  *)
(* order and nesting up to MaxDepth; SpecMain runs the self-test script.   *)
(***************************************************************************)
EXTENDS Integers, Sequences, FiniteSets

\* ------------------------------------------------------------------ bounds
MaxDepth == 2
MaxPathLen == 2
MaxFd == 11

\* ------------------------------------------------------------ input sets
Keys == {"PATH", "foo"}
VA == <<"a">>
VB == <<"b">>
VPath == <<"a", ":", "b">>
ExitCodes == {0, 1, 2}
PwHome == <<"h">>
NoAccess == {<<"priv">>}
Unbound == <<"<unbound>">>

VARIABLES cwd, dirs, environ, fdt, stack, pc, exc, last, proc, main

vars == <<cwd, dirs, environ, fdt, stack, pc, exc, last, proc, main>>

\* ------------------------------------------------- insertion-ordered dict
Has(d, k) == \E i \in 1..Len(d) : d[i][1] = k

Idx(d, k) == CHOOSE i \in 1..Len(d) : d[i][1] = k

Get(d, k) == d[Idx(d, k)][2]

Put(d, k, v) == IF Has(d, k) THEN [d EXCEPT ![Idx(d, k)] = <<k, v>>] ELSE Append(d, <<k, v>>)

Del(d, k) == SelectSeq(d, LAMBDA p : p[1] # k)

KeysOf(d) == [i \in 1..Len(d) |-> d[i][1]]

KeySet(d) == {d[i][1] : i \in 1..Len(d)}

\* ------------------------------------------------------------ os.chdir
Rel(name) == [abs |-> FALSE, comps |-> <<name>>]

Abs(p) == [abs |-> TRUE, comps |-> p]

Resolve(cur, target) == IF target.abs THEN target.comps ELSE cur \o target.comps

chdir_unchecked(cur, target, ds) ==
  [outcome |-> "ok", cwd |-> Resolve(cur, target)]

chdir(cur, target, ds) ==
  LET r == Resolve(cur, target)
  IN IF r \notin ds THEN [outcome |-> "FileNotFoundError", cwd |-> cur]
     ELSE IF r \in NoAccess THEN [outcome |-> "PermissionError", cwd |-> cur]
     ELSE [outcome |-> "ok", cwd |-> r]

\* ------------------------------------------------- descriptor table calls
Fds == 0..MaxFd

FreeFds(t) == {f \in Fds : t[f] = "closed"}

Lowest(t) == CHOOSE f \in FreeFds(t) : \A g \in FreeFds(t) : f <= g

os_open(t) ==
  IF FreeFds(t) = {} THEN [ok |-> FALSE, fd |-> 0, fdt |-> t]
  ELSE [ok |-> TRUE, fd |-> Lowest(t), fdt |-> [t EXCEPT ![Lowest(t)] = "null"]]

os_dup(t, fd) ==
  IF FreeFds(t) = {} \/ t[fd] = "closed" THEN [ok |-> FALSE, fd |-> 0, fdt |-> t]
  ELSE [ok |-> TRUE, fd |-> Lowest(t), fdt |-> [t EXCEPT ![Lowest(t)] = t[fd]]]

os_dup2(t, src, dst) == [t EXCEPT ![dst] = t[src]]

os_close(t, fd) == [t EXCEPT ![fd] = "closed"]

RECURSIVE close_all(_, _)
close_all(t, fds) == IF fds = <<>> THEN t ELSE close_all(os_close(t, Head(fds)), Tail(fds))

OpenFds(t) == {f \in Fds : t[f] # "closed"}

\* ----------------------------------------------------- records of the model
Globals == [cwd |-> cwd, environ |-> environ, fdt |-> fdt]

NoGlobals == [cwd |-> <<>>, environ |-> <<>>, fdt |-> [f \in Fds |-> "closed"]]

NoNested == [seen |-> FALSE, b |-> <<>>, after |-> <<>>]

NoFrame ==
  [kind |-> "none", nested |-> NoNested, cwd |-> <<>>, kwargs |-> <<>>, original_environment |-> <<>>,
   null_file_descriptors |-> <<>>, stdout_and_stderr |-> <<>>,
   pre |-> NoGlobals, atYield |-> NoGlobals]

NoLast ==
  [op |-> "none", kind |-> "none", outcome |-> "none", frame |-> NoFrame,
   before |-> NoGlobals, depth |-> 0, paths |-> <<>>, prepend |-> FALSE,
   expand_user |-> FALSE, yielded |-> <<>>, dest |-> "none", target |-> [abs |-> TRUE, comps |-> <<>>]]

NoCmd == [prog |-> "none", arg |-> ""]

NoProc ==
  [ran |-> FALSE, outcome |-> "none", command |-> NoCmd, check |-> FALSE,
   capture |-> FALSE, child_rc |-> 0, returncode |-> 0, err_cmd |-> NoCmd, err_returncode |-> 0,
   child_cwd |-> <<>>, child_environ |-> <<>>, output |-> <<>>, dest |-> "none",
   stdout |-> <<>>, has_stdout |-> FALSE]

NoMain == [d |-> "", k |-> "", v |-> <<>>, cwd0 |-> <<>>, env0 |-> <<>>, at |-> "none"]

Top == stack[Len(stack)]

Pop == SubSeq(stack, 1, Len(stack) - 1)

After(outcome) == IF outcome = "ok" THEN "run" ELSE "raising"

ExcOf(outcome) == IF outcome = "ok" THEN "none" ELSE outcome

\* ------------------------------------------------------------------ shell
Cmd(prog, arg) == [prog |-> prog, arg |-> arg]

Commands == {Cmd("mkdir -p", "foo"), Cmd("pwd", ""), Cmd("echo $", "foo"), Cmd("rm -rf", "foo")}

IsPrefix(p, q) == Len(p) <= Len(q) /\ SubSeq(q, 1, Len(p)) = p

\* what the command writes to its standard output, given the working
\* directory and environment it inherits
child_output(command, c, e) ==
  CASE command.prog = "pwd" -> c
    [] command.prog = "echo $" -> IF Has(e, command.arg) THEN Get(e, command.arg) ELSE <<>>
    [] command.prog = "echo" -> <<command.arg>>
    [] OTHER -> <<>>

\* what the command does to the directory tree when it succeeds
child_dirs(command, rc, c, ds) ==
  IF rc # 0 THEN ds
  ELSE CASE command.prog = "mkdir -p" -> ds \cup {c \o <<command.arg>>}
         [] command.prog = "rm -rf" -> {p \in ds : ~IsPrefix(c \o <<command.arg>>, p)}
         [] OTHER -> ds

\* a child can create a directory only within the modelled depth
CanExit(command, rc, c) ==
  (command.prog = "mkdir -p" /\ Len(c) >= MaxPathLen) => rc # 0

sp_run_unchecked(command, check, capture, rc, c, e, t) ==
  [NoProc EXCEPT
     !.ran = TRUE, !.outcome = "returned",
     !.command = command, !.check = check, !.capture = capture,
     !.child_rc = rc, !.returncode = rc,
     !.child_cwd = c, !.child_environ = e,
     !.output = child_output(command, c, e),
     !.dest = IF capture THEN "pipe" ELSE t[1],
     !.stdout = IF capture THEN child_output(command, c, e) ELSE <<>>,
     !.has_stdout = capture]

\* sp.run(command, check=check, shell=True, stdout=..., stderr=...)
sp_run(command, check, capture, rc, c, e, t) ==
  [NoProc EXCEPT
     !.ran = TRUE,
     !.outcome = IF check /\ rc # 0 THEN "CalledProcessError" ELSE "returned",
     !.command = command, !.check = check, !.capture = capture,
     !.child_rc = rc,
     !.returncode = IF check /\ rc # 0 THEN 0 ELSE rc,
     !.err_cmd = IF check /\ rc # 0 THEN command ELSE NoCmd,
     !.err_returncode = IF check /\ rc # 0 THEN rc ELSE 0,
     !.child_cwd = c, !.child_environ = e,
     !.output = child_output(command, c, e),
     !.dest = IF capture THEN "pipe" ELSE t[1],
     !.stdout = IF capture THEN child_output(command, c, e) ELSE <<>>,
     !.has_stdout = capture]

\* shell(): os.getlogin() fails when there is no controlling terminal
shell(command, check, capture, login_ok, rc, c, e, t) ==
  IF ~login_ok
  THEN [NoProc EXCEPT !.outcome = "OSError", !.command = command,
                      !.check = check, !.capture = capture]
  ELSE sp_run(command, check, capture, rc, c, e, t)

ShellCore(command, check, capture, login_ok, rc) ==
  LET p == shell(command, check, capture, login_ok, rc, cwd, environ, fdt)
  IN /\ proc' = p
     /\ dirs' = IF p.ran THEN child_dirs(command, rc, cwd, dirs) ELSE dirs
     /\ exc' = IF p.outcome = "returned" THEN "none" ELSE p.outcome
     /\ last' = NoLast
     /\ UNCHANGED <<cwd, environ, fdt, stack>>

Shell ==
  /\ pc = "run"
  /\ \E command \in Commands, check \in BOOLEAN, capture \in BOOLEAN,
        login_ok \in BOOLEAN, rc \in ExitCodes :
       /\ CanExit(command, rc, cwd)
       /\ ShellCore(command, check, capture, login_ok, rc)
  /\ pc' = IF proc'.outcome = "returned" THEN "run" ELSE "raising"
  /\ UNCHANGED main

\* --------------------------------------------------------------------- cd
Targets == {Rel("foo"), Abs(<<>>), Abs(<<"priv">>)}

CdEnterCore(path_) ==
  LET r == chdir(cwd, path_, dirs)
      fr == [NoFrame EXCEPT !.kind = "cd", !.cwd = cwd, !.pre = Globals,
                            !.atYield = [Globals EXCEPT !.cwd = r.cwd]]
  IN /\ cwd' = r.cwd
     /\ stack' = IF r.outcome = "ok" THEN Append(stack, fr) ELSE stack
     /\ exc' = ExcOf(r.outcome)
     /\ last' = [NoLast EXCEPT !.op = "enter", !.kind = "cd", !.outcome = r.outcome,
                               !.frame = IF r.outcome = "ok" THEN fr ELSE NoFrame,
                               !.before = Globals, !.depth = Len(stack),
                               !.target = path_]
     /\ proc' = NoProc
     /\ UNCHANGED <<dirs, environ, fdt>>

CdEnter ==
  /\ pc = "run"
  /\ Len(stack) < MaxDepth
  /\ \E path_ \in Targets : CdEnterCore(path_)
  /\ pc' = After(last'.outcome)
  /\ UNCHANGED main

CdExitCore ==
  LET r == chdir(cwd, Abs(Top.cwd), dirs)
  IN /\ cwd' = r.cwd
     /\ stack' = Pop
     /\ exc' = ExcOf(r.outcome)
     /\ last' = [NoLast EXCEPT !.op = "exit", !.kind = "cd", !.outcome = r.outcome,
                               !.frame = Top, !.before = Globals, !.depth = Len(stack)]
     /\ proc' = NoProc
     /\ UNCHANGED <<dirs, environ, fdt>>

CdExit ==
  /\ pc = "run"
  /\ Len(stack) > 0
  /\ Top.kind = "cd"
  /\ CdExitCore
  /\ pc' = After(last'.outcome)
  /\ UNCHANGED main

\* -------------------------------------------------------------------- env
RECURSIVE env_update(_, _)
env_update(e, kwargs) ==
  IF kwargs = <<>> THEN e
  ELSE env_update(Put(e, Head(kwargs)[1], Head(kwargs)[2]), Tail(kwargs))

RECURSIVE restore_loop(_, _, _, _)
restore_loop(keys, e, kwargs, original_environment) ==
  IF keys = <<>> THEN [outcome |-> "ok", environ |-> e]
  ELSE LET key == Head(keys)
       IN IF Has(kwargs, key) /\ Has(e, key) /\ Get(e, key) = Get(kwargs, key)
          THEN restore_loop(Tail(keys), Del(e, key), kwargs, original_environment)
          ELSE restore_loop(Tail(keys), Put(e, key, Get(original_environment, key)),
                            kwargs, original_environment)

\* the loop run over the keys of the snapshot instead of the live environment
env_restore_snapshot(keys, e, kwargs, original_environment) ==
  restore_loop(KeysOf(original_environment), e, kwargs, original_environment)

\* lines 56-60; keys is the list of keys the loop iterates over
RECURSIVE env_restore(_, _, _, _)
env_restore(keys, e, kwargs, original_environment) ==
  IF keys = <<>> THEN [outcome |-> "ok", environ |-> e]
  ELSE LET key == Head(keys)
       IN IF Has(kwargs, key) /\ Get(e, key) = Get(kwargs, key)
          THEN env_restore(Tail(keys), Del(e, key), kwargs, original_environment)
          ELSE IF ~Has(original_environment, key)
               THEN [outcome |-> "KeyError", environ |-> e]
               ELSE env_restore(Tail(keys),
                                Put(e, key, Get(original_environment, key)),
                                kwargs, original_environment)

EnvFrame(kind, kwargs) ==
  [NoFrame EXCEPT !.kind = kind, !.kwargs = kwargs, !.original_environment = environ,
                  !.pre = Globals,
                  !.atYield = [Globals EXCEPT !.environ = env_update(environ, kwargs)]]

EnvEnterCore(kwargs) ==
  /\ environ' = env_update(environ, kwargs)
  /\ stack' = Append(stack, EnvFrame("env", kwargs))
  /\ exc' = "none"
  /\ last' = [NoLast EXCEPT !.op = "enter", !.kind = "env", !.outcome = "ok",
                            !.frame = EnvFrame("env", kwargs), !.before = Globals,
                            !.depth = Len(stack)]
  /\ proc' = NoProc
  /\ UNCHANGED <<cwd, dirs, fdt>>

KwargsSet ==
  {<< <<"foo", VA>> >>, << <<"foo", VB>> >>, << <<"foo", VA>>, <<"PATH", VB>> >>}

EnvEnter ==
  /\ pc = "run"
  /\ Len(stack) < MaxDepth
  /\ \E kwargs \in KwargsSet : EnvEnterCore(kwargs)
  /\ pc' = "run"
  /\ UNCHANGED main

\* an env block on one key entered directly in the untouched block of an
\* env block on the same key
SameKeyNested(inner, outer) ==
  /\ inner.kind = "env" /\ outer.kind = "env"
  /\ Len(inner.kwargs) = 1 /\ Len(outer.kwargs) = 1
  /\ inner.kwargs[1][1] = outer.kwargs[1][1]
  /\ inner.pre.environ = outer.atYield.environ

\* the frames left once the innermost block has ended; the enclosing frame
\* notes (for the properties only) a same-key block that ended normally
PopNoting(r) ==
  IF /\ Len(stack) > 1
     /\ r.outcome = "ok"
     /\ SameKeyNested(Top, stack[Len(stack) - 1])
     /\ environ = Top.atYield.environ
  THEN [Pop EXCEPT ![Len(stack) - 1].nested =
          [seen |-> TRUE, b |-> Top.kwargs[1][2], after |-> r.environ]]
  ELSE Pop

EnvExitCore ==
  LET r == env_restore(KeysOf(environ), environ, Top.kwargs, Top.original_environment)
  IN /\ environ' = r.environ
     /\ stack' = PopNoting(r)
     /\ exc' = ExcOf(r.outcome)
     /\ last' = [NoLast EXCEPT !.op = "exit", !.kind = Top.kind, !.outcome = r.outcome,
                               !.frame = Top, !.before = Globals, !.depth = Len(stack)]
     /\ proc' = NoProc
     /\ UNCHANGED <<cwd, dirs, fdt>>

EnvExit ==
  /\ pc = "run"
  /\ Len(stack) > 0
  /\ Top.kind \in {"env", "path"}
  /\ EnvExitCore
  /\ pc' = After(last'.outcome)
  /\ UNCHANGED main

\* the enclosed block assigns or deletes an environment variable
BlockSetEnv ==
  /\ pc = "run"
  /\ Len(stack) > 0
  /\ \E k \in Keys : environ' = Put(environ, k, VB)
  /\ last' = [NoLast EXCEPT !.op = "block"]
  /\ proc' = NoProc
  /\ UNCHANGED <<cwd, dirs, fdt, stack, pc, exc, main>>

BlockDelEnv ==
  /\ pc = "run"
  /\ Len(stack) > 0
  /\ \E k \in KeySet(environ) : environ' = Del(environ, k)
  /\ last' = [NoLast EXCEPT !.op = "block"]
  /\ proc' = NoProc
  /\ UNCHANGED <<cwd, dirs, fdt, stack, pc, exc, main>>

\* ------------------------------------------------------------------- path
Str(c) == [is_str |-> TRUE, s |-> c]

PathLike(c) == [is_str |-> FALSE, s |-> c]

PathArgs ==
  {<<>>, <<Str(<<"c">>), Str(<<"d">>)>>, <<Str(<<"~">>)>>, <<PathLike(<<"c">>)>>}

HasSep(s) == \E i \in 1..Len(s) : s[i] = ":"

FirstSep(s) == CHOOSE i \in 1..Len(s) : s[i] = ":" /\ \A j \in 1..(i - 1) : s[j] # ":"

\* str.split(':')
RECURSIVE split(_)
split(s) ==
  IF ~HasSep(s) THEN <<s>>
  ELSE <<SubSeq(s, 1, FirstSep(s) - 1)>> \o split(SubSeq(s, FirstSep(s) + 1, Len(s)))

\* ':'.join(list)
RECURSIVE join(_)
join(l) ==
  IF l = <<>> THEN <<>>
  ELSE IF Len(l) = 1 THEN l[1]
  ELSE l[1] \o <<":">> \o join(Tail(l))

\* os.path.expanduser
expanduser(p, e) ==
  IF p # <<>> /\ p[1] = "~" /\ (Len(p) = 1 \/ p[2] = "/")
  THEN (IF Has(e, "HOME") THEN Get(e, "HOME") ELSE PwHome) \o Tail(p)
  ELSE p

\* paths_str_list[index] = value
subscript_store(paths_str_list, index, value) ==
  IF paths_str_list = Unbound
  THEN [outcome |-> "UnboundLocalError", paths_str_list |-> paths_str_list]
  ELSE IF index > Len(paths_str_list)
  THEN [outcome |-> "IndexError", paths_str_list |-> paths_str_list]
  ELSE [outcome |-> "ok", paths_str_list |-> [paths_str_list EXCEPT ![index] = value]]

\* lines 76-80
RECURSIVE path_loop(_, _, _, _, _)
path_loop(paths_list, index, paths_str_list, expand_user, e) ==
  IF index > Len(paths_list)
  THEN [outcome |-> "ok", paths_str_list |-> paths_str_list]
  ELSE LET _path == paths_list[index]
           st == subscript_store(paths_str_list, index,
                                 IF _path.is_str THEN expanduser(_path.s, e) ELSE _path.s)
       IN IF ~_path.is_str \/ expand_user
          THEN IF st.outcome # "ok" THEN st
               ELSE path_loop(paths_list, index + 1, st.paths_str_list, expand_user, e)
          ELSE path_loop(paths_list, index + 1, paths_str_list, expand_user, e)

\* lines 72-86, up to the call of env(); paths_str_list is declared at
\* line 74 by an annotation without a value, so the name is local and unbound
path_enter(paths, prepend, expand_user, e) ==
  LET l == path_loop(paths, 1, Unbound, expand_user, e)
      original_path == split(Get(e, "PATH"))
  IN IF l.outcome # "ok"
     THEN [outcome |-> l.outcome, paths_str_list |-> <<>>]
     ELSE IF ~Has(e, "PATH")
     THEN [outcome |-> "KeyError", paths_str_list |-> <<>>]
     ELSE IF l.paths_str_list = Unbound
     THEN [outcome |-> "UnboundLocalError", paths_str_list |-> <<>>]
     ELSE [outcome |-> "ok",
           paths_str_list |-> IF prepend THEN l.paths_str_list \o original_path
                              ELSE original_path \o l.paths_str_list]

PathEnterCore(paths, prepend, expand_user) ==
  LET r == path_enter(paths, prepend, expand_user, environ)
      kwargs == << <<"PATH", join(r.paths_str_list)>> >>
  IN /\ environ' = IF r.outcome = "ok" THEN env_update(environ, kwargs) ELSE environ
     /\ stack' = IF r.outcome = "ok" THEN Append(stack, EnvFrame("path", kwargs)) ELSE stack
     /\ exc' = ExcOf(r.outcome)
     /\ last' = [NoLast EXCEPT !.op = "enter", !.kind = "path", !.outcome = r.outcome,
                               !.frame = IF r.outcome = "ok" THEN EnvFrame("path", kwargs)
                                         ELSE NoFrame,
                               !.before = Globals, !.depth = Len(stack),
                               !.paths = paths, !.prepend = prepend,
                               !.expand_user = expand_user,
                               !.yielded = r.paths_str_list]
     /\ proc' = NoProc
     /\ UNCHANGED <<cwd, dirs, fdt>>

PathEnter ==
  /\ pc = "run"
  /\ Len(stack) < MaxDepth
  /\ \E paths \in PathArgs, prepend \in BOOLEAN, expand_user \in BOOLEAN :
       PathEnterCore(paths, prepend, expand_user)
  /\ pc' = After(last'.outcome)
  /\ UNCHANGED main

\* ------------------------------------------------------------------ quiet
QuietFail(t) == [outcome |-> "OSError", fdt |-> t, nulls |-> <<>>, saved |-> <<>>]

\* lines 99-110
quiet_enter(t) ==
  LET o1 == os_open(t)
      o2 == os_open(o1.fdt)
      d1 == os_dup(o2.fdt, 1)
      d2 == os_dup(d1.fdt, 2)
  IN IF ~o1.ok THEN QuietFail(t)
     ELSE IF ~o2.ok THEN QuietFail(o1.fdt)
     ELSE IF ~d1.ok THEN QuietFail(o2.fdt)
     ELSE IF ~d2.ok THEN QuietFail(d1.fdt)
     ELSE [outcome |-> "ok",
           fdt |-> os_dup2(os_dup2(d2.fdt, o1.fd, 1), o2.fd, 2),
           nulls |-> <<o1.fd, o2.fd>>, saved |-> <<d1.fd, d2.fd>>]

\* lines 115-121
quiet_exit(t, null_file_descriptors, stdout_and_stderr) ==
  close_all(os_dup2(os_dup2(t, stdout_and_stderr[1], 1), stdout_and_stderr[2], 2),
            null_file_descriptors \o stdout_and_stderr)

QuietEnterCore ==
  LET r == quiet_enter(fdt)
      fr == [NoFrame EXCEPT !.kind = "quiet", !.null_file_descriptors = r.nulls,
                            !.stdout_and_stderr = r.saved, !.pre = Globals,
                            !.atYield = [Globals EXCEPT !.fdt = r.fdt]]
  IN /\ fdt' = r.fdt
     /\ stack' = IF r.outcome = "ok" THEN Append(stack, fr) ELSE stack
     /\ exc' = ExcOf(r.outcome)
     /\ last' = [NoLast EXCEPT !.op = "enter", !.kind = "quiet", !.outcome = r.outcome,
                               !.frame = IF r.outcome = "ok" THEN fr ELSE NoFrame,
                               !.before = Globals, !.depth = Len(stack)]
     /\ proc' = NoProc
     /\ UNCHANGED <<cwd, dirs, environ>>

QuietEnter ==
  /\ pc = "run"
  /\ Len(stack) < MaxDepth
  /\ QuietEnterCore
  /\ pc' = After(last'.outcome)
  /\ UNCHANGED main

QuietExitCore ==
  /\ fdt' = quiet_exit(fdt, Top.null_file_descriptors, Top.stdout_and_stderr)
  /\ stack' = Pop
  /\ exc' = "none"
  /\ last' = [NoLast EXCEPT !.op = "exit", !.kind = "quiet", !.outcome = "ok",
                            !.frame = Top, !.before = Globals, !.depth = Len(stack)]
  /\ proc' = NoProc
  /\ UNCHANGED <<cwd, dirs, environ>>

QuietExit ==
  /\ pc = "run"
  /\ Len(stack) > 0
  /\ Top.kind = "quiet"
  /\ QuietExitCore
  /\ pc' = "run"
  /\ UNCHANGED main

\* print() in the enclosed block writes to whatever descriptor 1 refers to
StdoutWriteCore ==
  /\ last' = [NoLast EXCEPT !.op = "print", !.before = Globals, !.depth = Len(stack),
                            !.dest = fdt[1]]
  /\ proc' = NoProc
  /\ UNCHANGED <<cwd, dirs, environ, fdt, stack, exc>>

StdoutWrite ==
  /\ pc = "run"
  /\ Len(stack) > 0
  /\ last.op # "print"
  /\ StdoutWriteCore
  /\ pc' = "run"
  /\ UNCHANGED main

\* --------------------------------------------------- exceptions in a block
\* An exception leaves the innermost active generator at its yield: none of
\* the generators has a try/finally, so the frame is dropped as it is.
Unwind ==
  /\ pc = "raising"
  /\ Len(stack) > 0
  /\ stack' = Pop
  /\ last' = [NoLast EXCEPT !.op = "exit", !.kind = Top.kind, !.outcome = "raise",
                            !.frame = Top, !.before = Globals, !.depth = Len(stack)]
  /\ proc' = NoProc
  /\ UNCHANGED <<cwd, dirs, environ, fdt, pc, exc, main>>

\* the enclosed block raises an exception of its own
BlockRaise ==
  /\ pc = "run"
  /\ Len(stack) > 0
  /\ pc' = "raising"
  /\ exc' = "Exception"
  /\ last' = [NoLast EXCEPT !.op = "block"]
  /\ proc' = NoProc
  /\ UNCHANGED <<cwd, dirs, environ, fdt, stack, main>>

\* the caller (or an enclosing block) handles the exception and carries on
Catch ==
  /\ pc = "raising"
  /\ pc' = "run"
  /\ exc' = "none"
  /\ last' = [NoLast EXCEPT !.op = "catch"]
  /\ proc' = NoProc
  /\ UNCHANGED <<cwd, dirs, environ, fdt, stack, main>>

\* ------------------------------------------------------------------- Spec
StdFdt == [f \in Fds |-> IF f = 0 THEN "in" ELSE IF f = 1 THEN "out"
                         ELSE IF f = 2 THEN "err" ELSE "closed"]

InitEnvs ==
  {<< <<"PATH", VPath>> >>, << <<"foo", VA>> >>, << <<"PATH", VPath>>, <<"foo", VA>> >>}

InitFdts ==
  {StdFdt, [StdFdt EXCEPT ![2] = "out"], [StdFdt EXCEPT ![3] = "file"]}

InitDirs == {{<<>>, <<"priv">>}, {<<>>, <<"priv">>, <<"foo">>}}

InitRest ==
  /\ stack = <<>>
  /\ pc = "run"
  /\ exc = "none"
  /\ last = NoLast
  /\ proc = NoProc
  /\ main = NoMain

InitDir ==
  /\ cwd = <<>>
  /\ dirs \in InitDirs
  /\ environ \in {<< <<"PATH", VPath>> >>, << <<"PATH", VPath>>, <<"foo", VA>> >>}
  /\ fdt = StdFdt
  /\ InitRest

InitEnv ==
  /\ cwd = <<>>
  /\ dirs = {<<>>, <<"priv">>}
  /\ environ \in InitEnvs
  /\ fdt = StdFdt
  /\ InitRest

InitFd ==
  /\ cwd = <<>>
  /\ dirs = {<<>>, <<"priv">>}
  /\ environ = << <<"PATH", VPath>> >>
  /\ fdt \in InitFdts
  /\ InitRest

\* operations on the working directory and the directory tree
NextDir ==
  \/ Shell
  \/ CdEnter
  \/ CdExit
  \/ Unwind
  \/ Catch

SpecDir == InitDir /\ [][NextDir]_vars

\* operations on os.environ
NextEnv ==
  \/ EnvEnter
  \/ EnvExit
  \/ BlockSetEnv
  \/ BlockDelEnv
  \/ PathEnter
  \/ Unwind
  \/ Catch

SpecEnv == InitEnv /\ [][NextEnv]_vars

\* operations on the descriptor table
NextFd ==
  \/ QuietEnter
  \/ QuietExit
  \/ StdoutWrite
  \/ BlockRaise
  \/ Unwind
  \/ Catch

SpecFd == InitFd /\ [][NextFd]_vars

\* ------------------------------------------------- the __main__ self-test
\* The script of lines 125-152, one step per statement, for a directory
\* name d, a variable k and a value v (the source has 'foo', 'foo', 'bar').
\* An exception is not handled by the script: it unwinds the open blocks
\* and ends the run.
VBar == <<"b", "a", "r">>

MainNames == {"foo", "tmp"}

MainValues == {VBar, VA}

InitMain ==
  /\ cwd \in {<<>>, <<"foo">>}
  /\ dirs = {<<>>, <<"priv">>, <<"foo">>}
  /\ environ \in InitEnvs
  /\ fdt = StdFdt
  /\ stack = <<>>
  /\ pc = "L125"
  /\ exc = "none"
  /\ last = NoLast
  /\ proc = NoProc
  /\ \E d \in MainNames, k \in Keys, v \in MainValues :
       main = [d |-> d, k |-> k, v |-> v, cwd0 |-> cwd, env0 |-> environ, at |-> "none"]

MainShell(label, command, capture, next) ==
  /\ pc = label
  /\ \E login_ok \in BOOLEAN, rc \in ExitCodes :
       /\ CanExit(command, rc, cwd)
       /\ ShellCore(command, TRUE, capture, login_ok, rc)
  /\ main' = [main EXCEPT !.at = label]
  /\ pc' = IF proc'.outcome = "returned" THEN next ELSE "raising"

MainStep(label, next) ==
  /\ pc = label
  /\ main' = [main EXCEPT !.at = label]
  /\ pc' = IF last'.outcome \in {"ok", "none"} THEN next ELSE "raising"
Main125 ==
  /\ pc = "L125"
  /\ MainShell("L125", Cmd("mkdir -p", main.d), FALSE, "L127")

Main127 ==
  /\ pc = "L127"
  /\ MainShell("L127", Cmd("pwd", ""), FALSE, "L129")

Main129 ==
  /\ pc = "L129"
  /\ CdEnterCore(Rel(main.d))
  /\ MainStep("L129", "L130")

Main130 ==
  /\ pc = "L130"
  /\ MainShell("L130", Cmd("pwd", ""), FALSE, "L131")

Main131 ==
  /\ pc = "L131"
  /\ EnvEnterCore(<< <<main.k, main.v>> >>)
  /\ MainStep("L131", "L132")

Main132 ==
  /\ pc = "L132"
  /\ MainShell("L132", Cmd("echo $", main.k), FALSE, "L132exit")

Main132exit ==
  /\ pc = "L132exit"
  /\ EnvExitCore
  /\ MainStep("L132exit", "L134")

Main134 ==
  /\ pc = "L134"
  /\ MainShell("L134", Cmd("echo $", main.k), FALSE, "L134exit")

Main134exit ==
  /\ pc = "L134exit"
  /\ CdExitCore
  /\ MainStep("L134exit", "L136")

Main136 ==
  /\ pc = "L136"
  /\ MainShell("L136", Cmd("echo", "hello"), TRUE, "L140")

Main140 ==
  /\ pc = "L140"
  /\ StdoutWriteCore
  /\ MainStep("L140", "L142")

Main142 ==
  /\ pc = "L142"
  /\ MainShell("L142", Cmd("pwd", ""), FALSE, "L144")

Main144 ==
  /\ pc = "L144"
  /\ MainShell("L144", Cmd("ls", ""), FALSE, "L146")

Main146 ==
  /\ pc = "L146"
  /\ MainShell("L146", Cmd("rm -rf", main.d), FALSE, "L148")

Main148 ==
  /\ pc = "L148"
  /\ MainShell("L148", Cmd("ls", ""), FALSE, "L150")

Main150 ==
  /\ pc = "L150"
  /\ QuietEnterCore
  /\ MainStep("L150", "L152")

Main152 ==
  /\ pc = "L152"
  /\ StdoutWriteCore
  /\ MainStep("L152", "L152exit")

Main152exit ==
  /\ pc = "L152exit"
  /\ QuietExitCore
  /\ MainStep("L152exit", "done")

NextMain ==
  \/ Main125
  \/ Main127
  \/ Main129
  \/ Main130
  \/ Main131
  \/ Main132
  \/ Main132exit
  \/ Main134
  \/ Main134exit
  \/ Main136
  \/ Main140
  \/ Main142
  \/ Main144
  \/ Main146
  \/ Main148
  \/ Main150
  \/ Main152
  \/ Main152exit
  \/ Unwind

SpecMain == InitMain /\ [][NextMain]_vars

\* ======================================================== properties
SameAt(e1, e2, k) ==
  /\ Has(e1, k) <=> Has(e2, k)
  /\ Has(e1, k) => Get(e1, k) = Get(e2, k)

\* the scope ended by running the statements after its yield (the enclosed
\* block finished normally)
NormalExitOf(kind) == last.op = "exit" /\ last.kind = kind /\ last.outcome # "raise"

\* C1: after an env block whose body left the environment alone ends
\* normally, every supplied key is absent if it was absent before entry and
\* otherwise holds its pre-entry value.
C1_SuppliedKeysRestored ==
  (NormalExitOf("env") /\ last.before.environ = last.frame.atYield.environ)
    => \A k \in KeySet(last.frame.kwargs) : SameAt(environ, last.frame.pre.environ, k)

\* C2: the exit step of env completes without an error and leaves every key
\* that was not supplied exactly as it was just before the step, including
\* keys the enclosed block added or changed.
C2_ExitTouchesOnlySuppliedKeys ==
  NormalExitOf("env")
    => /\ last.outcome = "ok"
       /\ \A k \in Keys \ KeySet(last.frame.kwargs) :
            SameAt(environ, last.before.environ, k)

\* C3: when a cd block ends, normally or by an exception, the working
\* directory is the one in effect before the block was entered.
C3_CwdRestoredOnEveryExit ==
  (last.op = "exit" /\ last.kind = "cd") => cwd = last.frame.pre.cwd

\* C4: when a quiet block ends, normally or by an exception, descriptors 1
\* and 2 refer to what they referred to before entry, the four descriptors
\* the block created are closed, and the open descriptors are those open
\* before entry.
C4_DescriptorsRestoredOnEveryExit ==
  (last.op = "exit" /\ last.kind = "quiet")
    => /\ fdt[1] = last.frame.pre.fdt[1]
       /\ fdt[2] = last.frame.pre.fdt[2]
       /\ \A i \in 1..2 : /\ fdt[last.frame.null_file_descriptors[i]] = "closed"
                          /\ fdt[last.frame.stdout_and_stderr[i]] = "closed"
       /\ OpenFds(fdt) = OpenFds(last.frame.pre.fdt)

\* C5: for a command that was run: under check, exit status zero returns a
\* result and raises nothing, and a nonzero status raises CalledProcessError
\* carrying the command and that status; without check a nonzero status
\* raises nothing and is the returncode of the result.
C5_CheckedExit ==
  proc.ran
    => /\ (proc.check /\ proc.child_rc = 0)
            => (proc.outcome = "returned" /\ pc # "raising" /\ proc.returncode = 0)
       /\ (proc.check /\ proc.child_rc # 0)
            => /\ proc.outcome = "CalledProcessError"
               /\ pc = "raising" /\ exc = "CalledProcessError"
               /\ proc.err_cmd = proc.command
               /\ proc.err_returncode = proc.child_rc
       /\ ~proc.check
            => (proc.outcome = "returned" /\ pc # "raising"
                /\ proc.returncode = proc.child_rc)

C5_Witness ==
  /\ proc.ran /\ proc.check /\ proc.child_rc = 2
  /\ proc.outcome = "CalledProcessError" /\ proc.err_returncode = 2

\* C6: path() called with string entries P (no '~') while PATH splits into
\* E yields P followed by E under prepend and E followed by P otherwise,
\* and inside the block PATH is the yielded list joined with ':'.
EntryStrings(paths) == [i \in 1..Len(paths) |-> paths[i].s]

PlainStrings(paths) ==
  \A i \in 1..Len(paths) : paths[i].is_str /\ (\A j \in 1..Len(paths[i].s) : paths[i].s[j] # "~")

PathCallOnStrings ==
  /\ last.op = "enter" /\ last.kind = "path"
  /\ PlainStrings(last.paths)
  /\ Has(last.before.environ, "PATH")

C6_PathYieldsOrderedList ==
  PathCallOnStrings
    => LET P == EntryStrings(last.paths)
           E == split(Get(last.before.environ, "PATH"))
       IN /\ last.outcome = "ok"
          /\ last.yielded = IF last.prepend THEN P \o E ELSE E \o P
          /\ Has(environ, "PATH")
          /\ Get(environ, "PATH") = join(last.yielded)

BadTarget ==
  LET r == Resolve(last.before.cwd, last.target)
  IN r \notin dirs \/ r \in NoAccess

C8_FailedEntryChangesNothing ==
  (last.op = "enter" /\ last.kind = "cd" /\ BadTarget)
    => /\ last.outcome \in {"FileNotFoundError", "PermissionError"}
       /\ pc = "raising" /\ exc = last.outcome
       /\ Len(stack) = last.depth
       /\ cwd = last.before.cwd

C8_Witness ==
  /\ last.op = "enter" /\ last.kind = "cd" /\ BadTarget
  /\ last.outcome = "FileNotFoundError"
  /\ Len(stack) = 1

\* C9: in the self-test, with k unset at the start: the command inside the
\* env block sees directory d and k = v; the command after the env block,
\* still inside the cd block, sees directory d and k unset; the command
\* after the cd block sees the original directory.
C9_SelfTestObservations ==
  ~Has(main.env0, main.k)
    => /\ (main.at = "L130" /\ proc.ran)
            => (proc.child_cwd = main.cwd0 \o <<main.d>> /\ proc.output = proc.child_cwd)
       /\ (main.at = "L132" /\ proc.ran)
            => /\ proc.child_cwd = main.cwd0 \o <<main.d>>
               /\ Has(proc.child_environ, main.k)
               /\ Get(proc.child_environ, main.k) = main.v
               /\ proc.output = main.v
       /\ (main.at = "L134" /\ proc.ran)
            => /\ proc.child_cwd = main.cwd0 \o <<main.d>>
               /\ ~Has(proc.child_environ, main.k)
               /\ proc.output = <<>>
       /\ (main.at = "L142" /\ proc.ran)
            => (proc.child_cwd = main.cwd0 /\ proc.output = main.cwd0)

C9_Witness ==
  /\ ~Has(main.env0, main.k)
  /\ main.at = "L142" /\ proc.ran /\ proc.outcome = "returned"
  /\ main.cwd0 # <<>>

\* C10: for an env block setting k to b directly inside an env block setting
\* k to a: after the inner block ends k equals a, after the outer block
\* ends k is as it was before the outer entry, and no other key changes.
C10_NestedSameKey ==
  /\ (/\ NormalExitOf("env")
      /\ Len(stack) > 0
      /\ SameKeyNested(last.frame, Top)
      /\ last.before.environ = last.frame.atYield.environ)
       => LET k == Top.kwargs[1][1]
          IN /\ last.outcome = "ok"
             /\ Has(environ, k) /\ Get(environ, k) = Top.kwargs[1][2]
             /\ \A j \in Keys \ {k} : SameAt(environ, Top.atYield.environ, j)
  /\ (/\ NormalExitOf("env")
      /\ last.frame.nested.seen
      /\ last.before.environ = last.frame.nested.after)
       => /\ last.outcome = "ok"
          /\ \A j \in Keys : SameAt(environ, last.frame.pre.environ, j)

====
